---- MODULE Spec2Model ----
(***************************************************************************)
(* Model of stores/cryptostore.go: the CryptoStore encryption layer, its   *)
(* shared nonce with the atomic call counter / in-flight counter rotation  *)
(* protocol (CryptoStore.encrypt), and the CryptoMsgStore write and read   *)
(* paths over an underlying message store, and CryptoStore.CreateChannel   *)
(* and CryptoStore.Recover, which wrap the message stores of the channels. *)
(*                                                                         *)
(* Every goroutine that calls CryptoMsgStore.Store is a process with a     *)
(* program counter named after the source line it is about to execute.     *)
(* Each atomic operation, mutex operation and each read or write of the    *)
(* shared cs.nonce is one step.                                            *)
(*                                                                         *)
(* Cryptography is modelled symbolically: a ciphertext records the key and *)
(* nonce it was sealed with, and Open succeeds only when handed the same   *)
(* key and nonce.  The random source hands out nonces that were never      *)
(* handed out before (a 96-bit CSPRNG value), or fails.                    *)
(***************************************************************************)
EXTENDS Integers, Sequences, FiniteSets, TLC

(* ---------------------------- bounds ----------------------------------- *)

\* Number of goroutines calling Store concurrently.
NumProcs == 2

\* Total number of CryptoMsgStore.Store calls started in one run.
MaxCalls == 5

\* The call counter is not incremented past this value in the model.
MaxEncrypted == 4

\* Nonce generation fails at most this many times in one run.
MaxFailures == 1

\* Value of the variable csMaxEncryptCallsPerNonce (the tests lower it, too).
csMaxEncryptCallsPerNonce == 2

(* --------------------------- constants --------------------------------- *)

\* chacha20poly1305.NonceSize and the Poly1305 tag size (gcm.Overhead()).
nonceSize == 12
cryptoOverhead == 16

Procs == 1 .. NumProcs

\* Nonces the random source can hand out in one run; 0 is "no nonce".
NoNonce == 0

\* Key parameters given to NewCryptoStore and values of the environment
\* variable NATS_STREAMING_ENCRYPTION_KEY ("unset" is os.Unsetenv).
EnvUnset == "<unset>"
KeyParams == {"", "ivan"}
EnvValues == {EnvUnset, "", "ivan"}
ReaderKeys == {"ivan", "wrongkey"}

(* --------------------------- byte slices ------------------------------- *)

\* A []byte value: the nil slice, plain bytes, or a record produced by
\* encrypt (nonce prefix followed by the output of Seal).
NilData == [kind |-> "nil"]
Raw(b) == [kind |-> "raw", bytes |-> b]
Rec(prefix, ct) == [kind |-> "enc", prefix |-> prefix, ct |-> ct]

\* Payloads the callers store: nil, the empty non-nil slice, "msg0", "msg1".
Payloads == {NilData, Raw(<<>>), Raw(<<0>>), Raw(<<1>>)}

\* The payloads of the concurrent load: every goroutine stores the same
\* message, or nil.
LoadPayloads == {NilData, Raw(<<0>>)}

\* The payloads stored before the line-by-line reads: nil, empty, non-empty.
ReadPayloads == {NilData, Raw(<<>>), Raw(<<0>>)}

\* len(data)
len(d) ==
  CASE d.kind = "nil" -> 0
    [] d.kind = "raw" -> Len(d.bytes)
    [] d.kind = "enc" -> nonceSize + Len(d.ct.pt) + cryptoOverhead

(* ------------------------------ AEAD ----------------------------------- *)

\* sha256 of the key string, and the cipher built from it
\* (chacha20poly1305.New accepts every 32-byte key, so it never fails here).
keyHash(key) == <<"sha256", key>>

\* gcm.Seal(dst[:0], nonce, plaintext, nil)
Seal(gcm, n, pt) == [key |-> gcm, nonce |-> n, pt |-> pt]

\* gcm.Open(nil, nonce, ciphertext, nil): the plaintext, or an
\* authentication error.
Open(gcm, n, ct) ==
  IF ct.key = gcm /\ ct.nonce = n
    THEN [data |-> Raw(ct.pt), err |-> "nil", panic |-> FALSE]
    ELSE [data |-> NilData, err |-> "chacha20poly1305: message authentication failed",
          panic |-> FALSE]

(* ------------------------ construction --------------------------------- *)

\* os.Getenv(CryptoStoreEnvKeyName)
Getenv(e) == IF e = EnvUnset THEN "" ELSE e

\* NewCryptoStore without the lookup of the environment variable.
EffectiveKey_NoEnv(key, e) == key

\* The key NewCryptoStore uses: the parameter, or failing that the
\* environment variable (lines 67-73).
EffectiveKey(key, e) == IF key = "" THEN Getenv(e) ELSE key

\* NewCryptoStore(s, key) with the environment value e; randOK tells whether
\* io.ReadFull(rand.Reader, nonce) succeeds for the first nonce.  The result
\* is the pair (cs, err); cs.ok = FALSE is the nil *CryptoStore.
NilCS == [ok |-> FALSE, gcm |-> <<>>, nonce |-> NoNonce, encrypted |-> 0, inEncrypt |-> 0]
NewCryptoStore(key, e, randOK) ==
  IF EffectiveKey(key, e) = ""
    THEN [cs |-> NilCS, err |-> "crypto store requires a key"]
    ELSE IF ~randOK
      THEN [cs |-> NilCS, err |-> "rand"]
      ELSE [cs |-> [ok |-> TRUE, gcm |-> keyHash(EffectiveKey(key, e)),
                    nonce |-> 1, encrypted |-> 0, inEncrypt |-> 0],
            err |-> "nil"]

(* ------------------------------ channels ------------------------------- *)

\* Channel names: "foo" is the channel of the tests.
Foo == "foo"
Bar == "bar"
Channels == {Foo, Bar}

\* A channel as the caller of the layer sees it: whether the underlying
\* store has it, and the dynamic type of the Msgs field of the *Channel the
\* caller was handed ("none": no handle was handed out).
NoChannel == [exists |-> FALSE, Msgs |-> "none"]
StoredChannel == [exists |-> TRUE, Msgs |-> "none"]

\* The underlying Store.CreateChannel(channel): a new channel with the
\* message store of the underlying implementation, or (nil, err).
StoreError == "store error"
StoreCreateChannel(h, fail) ==
  IF fail THEN [channel |-> NoChannel, err |-> StoreError]
  ELSE IF h.exists THEN [channel |-> NoChannel, err |-> "already exists"]
  ELSE [channel |-> [exists |-> TRUE, Msgs |-> "MsgStore"], err |-> "nil"]

\* The underlying Store.Recover(): (nil, err), (nil, nil) when the store holds
\* no state, or the state with every channel the store has.
StoreRecover(chs, fail) ==
  IF fail THEN [isNil |-> TRUE, channels |-> {}, err |-> StoreError]
  ELSE IF \A c \in Channels : ~chs[c].exists
    THEN [isNil |-> TRUE, channels |-> {}, err |-> "nil"]
    ELSE [isNil |-> FALSE, channels |-> {c \in Channels : chs[c].exists},
          err |-> "nil"]

\* A channel handed out with the message store of the underlying
\* implementation left in place.
CryptoMsgStore_NotWrapped(h) == [h EXCEPT !.Msgs = "MsgStore"]

\* Lines 112 and 126: c.Msgs = &CryptoMsgStore{MsgStore: c.Msgs, cs: cs}
CryptoMsgStore(h) == [h EXCEPT !.Msgs = "CryptoMsgStore"]

\* CryptoStore.CreateChannel(channel), given what the underlying store has
\* for that name: the pair (channel, err).
CreateChannel(h, fail) ==
  LET r == StoreCreateChannel(h, fail) IN
    IF r.err # "nil"
      THEN [channel |-> NoChannel, err |-> r.err]
      ELSE [channel |-> CryptoMsgStore(r.channel), err |-> "nil"]

\* CryptoStore.Recover(): the pair (rs, err); rs.channels are the names of
\* the recovered channels and rs.chans the channels as handed out.
Recover(chs, fail) ==
  LET r == StoreRecover(chs, fail) IN
    IF r.isNil \/ r.err # "nil"
      THEN [isNil |-> r.isNil, channels |-> r.channels, chans |-> chs, err |-> r.err]
      ELSE [isNil |-> FALSE, channels |-> r.channels,
            chans |-> [c \in Channels |->
                        IF c \in r.channels
                          THEN CryptoMsgStore([exists |-> TRUE, Msgs |-> "MsgStore"])
                          ELSE chs[c]],
            err |-> "nil"]

\* What CreateChannel or Recover handed to its caller: the error, and for
\* each returned channel the dynamic type of its Msgs field.
Returned(op, err, names, chs) ==
  [op |-> op, err |-> err,
   Msgs |-> [c \in Channels |-> IF c \in names THEN chs[c].Msgs ELSE "none"]]
NoChRet == Returned("none", "nil", {}, [c \in Channels |-> NoChannel])

(* ------------------------------ state ---------------------------------- *)

VARIABLES
  ctor,       \* the NewCryptoStore call: its key, the environment, its error
  gcm,        \* cs.gcm: the cipher (the hash of the key it was built from)
  nonce,      \* cs.nonce
  encrypted,  \* cs.encrypted, the call counter
  inEncrypt,  \* cs.inEncrypt, the in-flight counter
  mutex,      \* cs.Mutex: 0 when free, else the goroutine holding it
  pc,         \* per goroutine: the source line it executes next
  count,      \* per goroutine: the local count of line 133
  data,       \* per goroutine: the payload given to Store
  buf,        \* per goroutine: the local buf of encrypt
  ret,        \* per goroutine: what its last Store call returned
  ch,         \* per goroutine: the channel whose Msgs.Store it is executing
  chan,       \* per channel name: whether the underlying store has it, and
              \* the dynamic type of the Msgs field of the handle given out
  chRet,      \* what the last CreateChannel or Recover call returned
  store,      \* per channel name: its underlying message store
  rd,         \* the read just made through a layer, whether its call of the
              \* underlying store failed, and its result (none after a write step)
  reader,     \* the read in progress, line by line: its position, its locals
              \* m, dd and retMsg, and the objects they point to
  att,        \* history, per goroutine: the nonce it installed in this call,
              \* and the number of counter resets when its count overshot
  hist,       \* history, per channel: the payload handed to Store for each stored record
  seals,      \* history: number of Seal calls made with each nonce
  calls,      \* history: number of Store calls started
  completed,  \* history: number of encrypt calls that returned a record
  failures    \* history: number of failed nonce generations after construction

vars == <<ctor, gcm, nonce, encrypted, inEncrypt, mutex, pc, count, data, buf,
          ret, ch, chan, chRet, store, rd, reader, att, hist, seals, calls, completed,
          failures>>

\* The channel of the tests, cs.CreateChannel("foo"): its message store and
\* the payloads handed to it.
msgs == store[Foo]
sent == hist[Foo]

shared == <<gcm, nonce, encrypted, inEncrypt, mutex>>

NonceIds == 1 .. (MaxCalls + 1)

NoRet == [seq |-> 0, err |-> "none"]
NoAttempt == [mine |-> NoNonce, over |-> 0]
NoRead == [op |-> "none", key |-> "", ch |-> Foo, seq |-> 0, fail |-> FALSE,
           res |-> [isNil |-> TRUE, Sequence |-> 0, Timestamp |-> 0, Data |-> NilData,
                    err |-> "nil", panic |-> FALSE]]

\* What a pointer or a slice of the read path points to: nothing, the
\* message i that the store of channel c holds, the array behind the Data of
\* that message, the local retMsg of line 181, or the array that Open
\* allocates when its dst is nil.
NilRef == [tag |-> "nil", ch |-> Foo, seq |-> 0]
MsgRef(c, i) == [tag |-> "msg", ch |-> c, seq |-> i]
DataRef(c, i) == [tag |-> "data", ch |-> c, seq |-> i]
RetMsgRef == [tag |-> "retMsg", ch |-> Foo, seq |-> 0]
DdRef == [tag |-> "dd", ch |-> Foo, seq |-> 0]

\* No read in progress. m, dd and ret are the pointer m, the slice dd and
\* the pointer the call returns; retMsg is the local struct of line 181 (its
\* Data is a slice: a reference); fresh is the content of the array Open
\* allocated.
NoReader == [pc |-> "idle", op |-> "none", key |-> "", ch |-> Foo, seq |-> 0,
             fail |-> FALSE,
             m |-> NilRef, dd |-> NilRef,
             err |-> "nil", ret |-> NilRef,
             retMsg |-> [isNil |-> TRUE, Sequence |-> 0, Timestamp |-> 0, Data |-> NilRef],
             fresh |-> NilData]

Constructed == ctor.err = "nil"
Crashed == rd.res.panic

\* The state right after NewCryptoStore(s, key) ran with the environment
\* value e, before any goroutine calls the store.
AfterNew(key, e, randOK) ==
    LET r == NewCryptoStore(key, e, randOK) IN
      /\ ctor = [key |-> key, env |-> e, randOK |-> randOK, ok |-> r.cs.ok, err |-> r.err]
      /\ gcm = r.cs.gcm
      /\ nonce = r.cs.nonce
      /\ encrypted = r.cs.encrypted
      /\ inEncrypt = r.cs.inEncrypt
      /\ mutex = 0
      /\ pc = [p \in Procs |-> "idle"]
      /\ count = [p \in Procs |-> 0]
      /\ data = [p \in Procs |-> NilData]
      /\ buf = [p \in Procs |-> NilData]
      /\ ret = [p \in Procs |-> NoRet]
      /\ ch = [p \in Procs |-> Foo]
      /\ chan = [c \in Channels |->
                  IF r.cs.ok /\ c = Foo
                    THEN CreateChannel(NoChannel, FALSE).channel
                    ELSE NoChannel]
      /\ chRet = IF r.cs.ok THEN Returned("CreateChannel", "nil", {Foo}, chan)
                            ELSE NoChRet
      /\ store = [c \in Channels |-> <<>>]
      /\ rd = NoRead
      /\ reader = NoReader
      /\ att = [p \in Procs |-> NoAttempt]
      /\ hist = [c \in Channels |-> <<>>]
      /\ seals = [n \in NonceIds |-> 0]
      /\ calls = 0
      /\ completed = 0
      /\ failures = 0

\* The layer of the tests: NewCryptoStore(s, "ivan"), the variable unset.
Init == AfterNew("ivan", EnvUnset, TRUE)

\* Any call of NewCryptoStore.
InitAny ==
  \E key \in KeyParams, e \in EnvValues, randOK \in BOOLEAN : AfterNew(key, e, randOK)

(* ---------------- underlying message store (MsgStore) ------------------- *)

\* A *pb.MsgProto; NilMsg is the nil pointer.
NilMsg == [isNil |-> TRUE, Sequence |-> 0, Timestamp |-> 0, Data |-> NilData]
Msg(seq, ts, d) == [isNil |-> FALSE, Sequence |-> seq, Timestamp |-> ts, Data |-> d]

\* The clock of the underlying store when it stores into ms: it ticks with
\* every stored message and is ahead of every sequence number.
Now(ms) == MaxCalls + Len(ms) + 1

\* MsgStore.Store(data) at time now: appends the message with the next
\* sequence and the time as its timestamp, returns its sequence.
MsgStoreStore(ms, d, now) == Append(ms, Msg(Len(ms) + 1, now, d))

\* MsgStore.Lookup(seq), FirstMsg(), LastMsg(): the stored message, nil when
\* there is none, or (nil, err) when the store fails.
MsgStoreLookup(ms, seq, fail) ==
  IF fail THEN [m |-> NilMsg, err |-> StoreError]
  ELSE [m |-> IF seq \in 1 .. Len(ms) THEN ms[seq] ELSE NilMsg, err |-> "nil"]
MsgStoreFirstMsg(ms, fail) ==
  IF fail THEN [m |-> NilMsg, err |-> StoreError]
  ELSE [m |-> IF Len(ms) > 0 THEN ms[1] ELSE NilMsg, err |-> "nil"]
MsgStoreLastMsg(ms, fail) ==
  IF fail THEN [m |-> NilMsg, err |-> StoreError]
  ELSE [m |-> IF Len(ms) > 0 THEN ms[Len(ms)] ELSE NilMsg, err |-> "nil"]

(* ------------------- CryptoStore.encrypt, step by step ------------------ *)

\* Line 133 with ">" in place of ">=".
AtThreshold_OffByOne(c) == c > csMaxEncryptCallsPerNonce

\* Line 133: count >= csMaxEncryptCallsPerNonce
AtThreshold(c) == c >= csMaxEncryptCallsPerNonce

\* Line 136 with ">=" in place of "==".
IsRotator_AtLeast(c) == c >= csMaxEncryptCallsPerNonce

\* Line 136: count == csMaxEncryptCallsPerNonce
IsRotator(c) == c = csMaxEncryptCallsPerNonce

\* Line 137: the loop "for atomic.LoadInt64(&cs.inEncrypt) > 0" is left.
Drained(n) == ~(n > 0)

\* Line 166 with a payload of one byte passed through as well.
IsEmptyPayload_OneByte(d) == len(d) <= 1

\* Line 166: len(data) == 0
IsEmptyPayload(d) == len(d) = 0

\* atomic.AddInt64(&cs.encrypted, 1): the code only compares the counter with
\* the threshold, so values from MaxEncrypted on, all above it, are kept as
\* MaxEncrypted.
AddInt64(n, d) == IF n + d > MaxEncrypted THEN MaxEncrypted ELSE n + d

\* The nonce NewCryptoStore installs, and the number of completed runs of
\* line 99 (the counter resets) since then.
FirstNonce == 1
Resets == (nonce - FirstNonce) - Cardinality({q \in Procs : pc[q] = "L99"})

\* CryptoMsgStore.Store, line 166-167: an empty payload goes to the
\* underlying store as it is.
StoreEmpty(p, c, d) ==
  /\ Constructed /\ ~Crashed
  /\ pc[p] = "idle" /\ calls < MaxCalls
  /\ chan[c].Msgs = "CryptoMsgStore"
  /\ IsEmptyPayload(d)
  /\ store' = [store EXCEPT ![c] = MsgStoreStore(store[c], d, Now(store[c]))]
  /\ hist' = [hist EXCEPT ![c] = Append(hist[c], d)]
  /\ ret' = [ret EXCEPT ![p] = [seq |-> Len(store[c]) + 1, err |-> "nil"]]
  /\ calls' = calls + 1
  /\ rd' = NoRead
  /\ UNCHANGED <<ctor, reader, chan, chRet, shared, pc, count, att, data, ch, buf, seals, completed, failures>>

\* CryptoMsgStore.Store, line 169: a non-empty payload enters encrypt.
StoreBegin(p, c, d) ==
  /\ Constructed /\ ~Crashed
  /\ pc[p] = "idle" /\ calls < MaxCalls
  /\ chan[c].Msgs = "CryptoMsgStore"
  /\ ~IsEmptyPayload(d)
  /\ pc' = [pc EXCEPT ![p] = "L132"]
  /\ ch' = [ch EXCEPT ![p] = c]
  /\ att' = [att EXCEPT ![p] = NoAttempt]
  /\ data' = [data EXCEPT ![p] = d]
  /\ buf' = [buf EXCEPT ![p] = NilData]
  /\ count' = [count EXCEPT ![p] = 0]
  /\ ret' = [ret EXCEPT ![p] = NoRet]
  /\ calls' = calls + 1
  /\ rd' = NoRead
  /\ UNCHANGED <<ctor, reader, chan, chRet, shared, store, hist, seals, completed, failures>>

\* Line 132: atomic.AddInt64(&cs.inEncrypt, 1)
L132(p) ==
  /\ ~Crashed
  /\ pc[p] = "L132"
  /\ inEncrypt' = inEncrypt + 1
  /\ pc' = [pc EXCEPT ![p] = "L133"]
  /\ rd' = NoRead
  /\ UNCHANGED <<ctor, reader, chan, chRet, gcm, nonce, encrypted, mutex, count, att, data, ch, buf, ret, store,
                 hist, seals, calls, completed, failures>>

\* Line 133: count := atomic.AddInt64(&cs.encrypted, 1) and the comparison.
L133(p) ==
  /\ ~Crashed
  /\ pc[p] = "L133"
  /\ encrypted' = AddInt64(encrypted, 1)
  /\ count' = [count EXCEPT ![p] = encrypted']
  /\ att' = [att EXCEPT ![p].over =
               IF encrypted' > csMaxEncryptCallsPerNonce THEN Resets + 1 ELSE @]
  /\ pc' = [pc EXCEPT ![p] = IF AtThreshold(encrypted') THEN "L134" ELSE "L152"]
  /\ rd' = NoRead
  /\ UNCHANGED <<ctor, reader, chan, chRet, gcm, nonce, inEncrypt, mutex, data, ch, buf, ret, store,
                 hist, seals, calls, completed, failures>>

\* Line 134 left out: the caller keeps its in-flight claim while it waits
\* for the mutex.
L134_NoRelease(p) ==
  /\ ~Crashed
  /\ pc[p] = "L134"
  /\ pc' = [pc EXCEPT ![p] = "L135"]
  /\ rd' = NoRead
  /\ UNCHANGED <<ctor, reader, chan, chRet, shared, count, att, data, ch, buf, ret, store,
                 hist, seals, calls, completed, failures>>

\* Line 134: atomic.AddInt64(&cs.inEncrypt, -1)
L134(p) ==
  /\ ~Crashed
  /\ pc[p] = "L134"
  /\ inEncrypt' = inEncrypt - 1
  /\ pc' = [pc EXCEPT ![p] = "L135"]
  /\ rd' = NoRead
  /\ UNCHANGED <<ctor, reader, chan, chRet, gcm, nonce, encrypted, mutex, count, att, data, ch, buf, ret, store,
                 hist, seals, calls, completed, failures>>

\* Line 135: cs.Lock(), then the comparison of line 136.
L135(p) ==
  /\ ~Crashed
  /\ pc[p] = "L135"
  /\ mutex = 0
  /\ mutex' = p
  /\ pc' = [pc EXCEPT ![p] = IF IsRotator(count[p]) THEN "L137" ELSE "L147"]
  /\ rd' = NoRead
  /\ UNCHANGED <<ctor, reader, chan, chRet, gcm, nonce, encrypted, inEncrypt, count, att, data, ch, buf, ret, store,
                 hist, seals, calls, completed, failures>>

\* Lines 137-139: the rotator polls the in-flight counter until it is drained.
L137(p) ==
  /\ ~Crashed
  /\ pc[p] = "L137"
  /\ Drained(inEncrypt)
  /\ pc' = [pc EXCEPT ![p] = "L140"]
  /\ rd' = NoRead
  /\ UNCHANGED <<ctor, reader, chan, chRet, shared, count, att, data, ch, buf, ret, store,
                 hist, seals, calls, completed, failures>>

\* Line 140, generateNewNonce lines 94-98: the random source delivers a
\* nonce and it is installed.
L140(p) ==
  /\ ~Crashed
  /\ pc[p] = "L140"
  /\ nonce' = nonce + 1
  /\ att' = [att EXCEPT ![p].mine = nonce']
  /\ pc' = [pc EXCEPT ![p] = "L99"]
  /\ rd' = NoRead
  /\ UNCHANGED <<ctor, reader, chan, chRet, gcm, encrypted, inEncrypt, mutex, count, data, ch, buf, ret, store,
                 hist, seals, calls, completed, failures>>

\* Line 140, generateNewNonce lines 95-97: io.ReadFull fails.
L140Fail(p) ==
  /\ ~Crashed
  /\ pc[p] = "L140"
  /\ failures < MaxFailures
  /\ failures' = failures + 1
  /\ pc' = [pc EXCEPT ![p] = "L141"]
  /\ rd' = NoRead
  /\ UNCHANGED <<ctor, reader, chan, chRet, shared, count, att, data, ch, buf, ret, store,
                 hist, seals, calls, completed>>

\* generateNewNonce without line 99: the call counter keeps its value.
L99_NoReset(p) ==
  /\ ~Crashed
  /\ pc[p] = "L99"
  /\ pc' = [pc EXCEPT ![p] = "L144"]
  /\ rd' = NoRead
  /\ UNCHANGED <<ctor, reader, chan, chRet, shared, count, att, data, ch, buf, ret, store,
                 hist, seals, calls, completed, failures>>

\* generateNewNonce line 99: atomic.StoreInt64(&cs.encrypted, 0)
L99(p) ==
  /\ ~Crashed
  /\ pc[p] = "L99"
  /\ encrypted' = 0
  /\ pc' = [pc EXCEPT ![p] = "L144"]
  /\ rd' = NoRead
  /\ UNCHANGED <<ctor, reader, chan, chRet, gcm, nonce, inEncrypt, mutex, count, att, data, ch, buf, ret, store,
                 hist, seals, calls, completed, failures>>

\* Lines 141-142 without cs.Unlock(): the error is returned with the mutex
\* held.
L141_NoUnlock(p) ==
  /\ ~Crashed
  /\ pc[p] = "L141"
  /\ ret' = [ret EXCEPT ![p] = [seq |-> 0, err |-> "rand"]]
  /\ pc' = [pc EXCEPT ![p] = "idle"]
  /\ count' = [count EXCEPT ![p] = 0]
  /\ att' = [att EXCEPT ![p] = NoAttempt]
  /\ data' = [data EXCEPT ![p] = NilData]
  /\ buf' = [buf EXCEPT ![p] = NilData]
  /\ rd' = NoRead
  /\ UNCHANGED <<ctor, reader, chan, chRet, shared, ch, store,
                 hist, seals, calls, completed, failures>>

\* Lines 141-142 and 170-172: cs.Unlock(), encrypt returns the error and
\* Store returns (0, err); the locals of the call are gone.
L141(p) ==
  /\ ~Crashed
  /\ pc[p] = "L141"
  /\ mutex' = 0
  /\ ret' = [ret EXCEPT ![p] = [seq |-> 0, err |-> "rand"]]
  /\ pc' = [pc EXCEPT ![p] = "idle"]
  /\ count' = [count EXCEPT ![p] = 0]
  /\ att' = [att EXCEPT ![p] = NoAttempt]
  /\ data' = [data EXCEPT ![p] = NilData]
  /\ buf' = [buf EXCEPT ![p] = NilData]
  /\ rd' = NoRead
  /\ UNCHANGED <<ctor, reader, chan, chRet, gcm, nonce, encrypted, inEncrypt, ch, store,
                 hist, seals, calls, completed, failures>>

\* Line 144: cs.Unlock() after the rotation.
L144(p) ==
  /\ ~Crashed
  /\ pc[p] = "L144"
  /\ mutex' = 0
  /\ pc' = [pc EXCEPT ![p] = "L145"]
  /\ rd' = NoRead
  /\ UNCHANGED <<ctor, reader, chan, chRet, gcm, nonce, encrypted, inEncrypt, count, att, data, ch, buf, ret, store,
                 hist, seals, calls, completed, failures>>

\* Line 145 left out: the rotator goes on without an in-flight claim.
L145_NoClaim(p) ==
  /\ ~Crashed
  /\ pc[p] = "L145"
  /\ pc' = [pc EXCEPT ![p] = "L152"]
  /\ rd' = NoRead
  /\ UNCHANGED <<ctor, reader, chan, chRet, shared, count, att, data, ch, buf, ret, store,
                 hist, seals, calls, completed, failures>>

\* Line 145: atomic.AddInt64(&cs.inEncrypt, 1)
L145(p) ==
  /\ ~Crashed
  /\ pc[p] = "L145"
  /\ inEncrypt' = inEncrypt + 1
  /\ pc' = [pc EXCEPT ![p] = "L152"]
  /\ rd' = NoRead
  /\ UNCHANGED <<ctor, reader, chan, chRet, gcm, nonce, encrypted, mutex, count, att, data, ch, buf, ret, store,
                 hist, seals, calls, completed, failures>>

\* Lines 147-148 without the goto: the call falls through to line 151.
L147_NoRetry(p) ==
  /\ ~Crashed
  /\ pc[p] = "L147"
  /\ mutex' = 0
  /\ pc' = [pc EXCEPT ![p] = "L152"]
  /\ rd' = NoRead
  /\ UNCHANGED <<ctor, reader, chan, chRet, gcm, nonce, encrypted, inEncrypt, count, att, data, ch, buf, ret, store,
                 hist, seals, calls, completed, failures>>

\* Lines 147-148: cs.Unlock(); goto CHECK_ENCRYPTED_COUNT
L147(p) ==
  /\ ~Crashed
  /\ pc[p] = "L147"
  /\ mutex' = 0
  /\ pc' = [pc EXCEPT ![p] = "L132"]
  /\ rd' = NoRead
  /\ UNCHANGED <<ctor, reader, chan, chRet, gcm, nonce, encrypted, inEncrypt, count, att, data, ch, buf, ret, store,
                 hist, seals, calls, completed, failures>>

\* Lines 151-153 without copy(buf, cs.nonce): the prefix stays zero.
L152_NoCopy(p) ==
  /\ ~Crashed
  /\ pc[p] = "L152"
  /\ buf' = [buf EXCEPT ![p] = [kind |-> "buf", prefix |-> NoNonce]]
  /\ pc' = [pc EXCEPT ![p] = "L155"]
  /\ rd' = NoRead
  /\ UNCHANGED <<ctor, reader, chan, chRet, shared, count, att, data, ch, ret, store,
                 hist, seals, calls, completed, failures>>

\* Lines 151-153: buf is allocated and cs.nonce is copied into its prefix.
L152(p) ==
  /\ ~Crashed
  /\ pc[p] = "L152"
  /\ buf' = [buf EXCEPT ![p] = [kind |-> "buf", prefix |-> nonce]]
  /\ pc' = [pc EXCEPT ![p] = "L155"]
  /\ rd' = NoRead
  /\ UNCHANGED <<ctor, reader, chan, chRet, shared, count, att, data, ch, ret, store,
                 hist, seals, calls, completed, failures>>

\* Line 155: cs.gcm.Seal(dst[:0], cs.nonce, dst, nil)
L155(p) ==
  /\ ~Crashed
  /\ pc[p] = "L155"
  /\ buf' = [buf EXCEPT ![p] = Rec(buf[p].prefix, Seal(gcm, nonce, data[p].bytes))]
  /\ seals' = [seals EXCEPT ![nonce] = @ + 1]
  /\ pc' = [pc EXCEPT ![p] = "L156"]
  /\ rd' = NoRead
  /\ UNCHANGED <<ctor, reader, chan, chRet, shared, count, att, data, ch, ret, store,
                 hist, calls, completed, failures>>

\* Lines 156-157: atomic.AddInt64(&cs.inEncrypt, -1) and encrypt returns.
L156(p) ==
  /\ ~Crashed
  /\ pc[p] = "L156"
  /\ inEncrypt' = inEncrypt - 1
  /\ completed' = completed + 1
  /\ pc' = [pc EXCEPT ![p] = "L173"]
  /\ rd' = NoRead
  /\ UNCHANGED <<ctor, reader, chan, chRet, gcm, nonce, encrypted, mutex, count, att, data, ch, buf, ret, store,
                 hist, seals, calls, failures>>

\* Line 173: cms.MsgStore.Store(ed); Store returns and the locals of the call
\* are gone.
L173(p) ==
  /\ ~Crashed
  /\ pc[p] = "L173"
  /\ store' = [store EXCEPT ![ch[p]] = MsgStoreStore(store[ch[p]], buf[p], Now(store[ch[p]]))]
  /\ hist' = [hist EXCEPT ![ch[p]] = Append(hist[ch[p]], data[p])]
  /\ ret' = [ret EXCEPT ![p] = [seq |-> Len(store[ch[p]]) + 1, err |-> "nil"]]
  /\ pc' = [pc EXCEPT ![p] = "idle"]
  /\ count' = [count EXCEPT ![p] = 0]
  /\ att' = [att EXCEPT ![p] = NoAttempt]
  /\ data' = [data EXCEPT ![p] = NilData]
  /\ buf' = [buf EXCEPT ![p] = NilData]
  /\ rd' = NoRead
  /\ UNCHANGED <<ctor, reader, chan, chRet, shared, ch, seals, calls, completed, failures>>

(* ------------------------- the read path -------------------------------- *)

\* What a read returns: the message (or nil), the error, or a runtime panic.
Result(m, err) == [isNil |-> m.isNil, Sequence |-> m.Sequence,
                   Timestamp |-> m.Timestamp, Data |-> m.Data,
                   err |-> err, panic |-> FALSE]
Panic == [isNil |-> TRUE, Sequence |-> 0, Timestamp |-> 0, Data |-> NilData,
          err |-> "panic: slice bounds out of range", panic |-> TRUE]
AuthError == "chacha20poly1305: message authentication failed"

\* CryptoStore.decrypt: data[:cs.nonceSize] and data[cs.nonceSize:] need
\* len(data) >= nonceSize; bytes that no Seal produced do not authenticate.
decrypt(g, d) ==
  IF len(d) < nonceSize
    THEN [data |-> NilData, err |-> Panic.err, panic |-> TRUE]
    ELSE IF d.kind = "enc"
      THEN Open(g, d.prefix, d.ct)
      ELSE [data |-> NilData, err |-> AuthError, panic |-> FALSE]

\* decryptedMsg without the check of the error of decrypt: the stored
\* message is returned when the payload does not authenticate.
decryptedMsg_IgnoreErr(g, m) ==
  LET r == decrypt(g, m.Data) IN
    IF r.panic THEN Panic
    ELSE IF r.err # "nil" THEN Result(m, "nil")
    ELSE Result([m EXCEPT !.Data = r.data], "nil")

\* CryptoMsgStore.decryptedMsg: the decrypted payload in a copy of m.
decryptedMsg(g, m) ==
  LET r == decrypt(g, m.Data) IN
    IF r.panic THEN Panic
    ELSE IF r.err # "nil" THEN Result(NilMsg, r.err)
    ELSE Result([m EXCEPT !.Data = r.data], "nil")

\* Lines 189, 198, 207: m == nil || m.Data == nil || err != nil
ReturnedAsIs(m, err) == m.isNil \/ m.Data = NilData \/ err # "nil"

\* Lines 189-192 (198-201, 207-210) of a layer whose cipher is g, the
\* underlying store having returned (m, err): return m, err, or
\* decryptedMsg(m).
Read(g, m, err) ==
  IF ReturnedAsIs(m, err) THEN Result(m, err) ELSE decryptedMsg(g, m)

\* CryptoMsgStore.Lookup, FirstMsg and LastMsg of a layer whose cipher is g.
Lookup(g, ms, seq, fail) ==
  LET r == MsgStoreLookup(ms, seq, fail) IN Read(g, r.m, r.err)

FirstMsg(g, ms, fail) ==
  LET r == MsgStoreFirstMsg(ms, fail) IN Read(g, r.m, r.err)

LastMsg(g, ms, fail) ==
  LET r == MsgStoreLastMsg(ms, fail) IN Read(g, r.m, r.err)

\* A read leaves the layer, the goroutines and the message stores alone
\* (the line-by-line reads below show the latter).
ReadFrame == UNCHANGED <<ctor, reader, chan, chRet, shared, pc, count, att, data, ch, buf, ret,
                         store, hist, seals, calls, completed, failures>>

\* Lookup(seq) on channel c through a layer built by NewCryptoStore(s, k);
\* fail: the underlying store fails.
DoLookup(k, c, seq, fail) ==
  /\ Constructed /\ ~Crashed
  /\ chan[c].Msgs = "CryptoMsgStore"
  /\ rd' = [op |-> "Lookup", key |-> k, ch |-> c, seq |-> seq, fail |-> fail,
            res |-> Lookup(keyHash(k), store[c], seq, fail)]
  /\ ReadFrame

DoFirstMsg(k, c, fail) ==
  /\ Constructed /\ ~Crashed
  /\ chan[c].Msgs = "CryptoMsgStore"
  /\ rd' = [op |-> "FirstMsg", key |-> k, ch |-> c, seq |-> 1, fail |-> fail,
            res |-> FirstMsg(keyHash(k), store[c], fail)]
  /\ ReadFrame

DoLastMsg(k, c, fail) ==
  /\ Constructed /\ ~Crashed
  /\ chan[c].Msgs = "CryptoMsgStore"
  /\ rd' = [op |-> "LastMsg", key |-> k, ch |-> c, seq |-> Len(store[c]), fail |-> fail,
            res |-> LastMsg(keyHash(k), store[c], fail)]
  /\ ReadFrame

(* -------------------- the read path, line by line ----------------------- *)

\* The bytes a slice points to.
Bytes(a) ==
  IF a.tag = "data" THEN store[a.ch][a.seq].Data
  ELSE IF a.tag = "dd" THEN reader.fresh
  ELSE NilData

\* The Data field, a slice, of the message a pointer points to.
DataOf(r) ==
  IF r.tag = "msg" THEN DataRef(r.ch, r.seq)
  ELSE IF r.tag = "retMsg" THEN reader.retMsg.Data
  ELSE NilRef

\* The message a pointer points to, with the bytes of its Data.
At(r) ==
  IF r.tag = "msg" THEN store[r.ch][r.seq]
  ELSE IF r.tag = "retMsg" THEN [reader.retMsg EXCEPT !.Data = Bytes(reader.retMsg.Data)]
  ELSE NilMsg

\* MsgStore.Lookup(seq), FirstMsg(), LastMsg() hand out a pointer: to the
\* message the store holds, or nil; (nil, err) when the store fails.
MsgStorePointer(c, ms, seq, fail) ==
  IF fail THEN [m |-> NilRef, err |-> StoreError]
  ELSE [m |-> IF seq \in 1 .. Len(ms) THEN MsgRef(c, seq) ELSE NilRef, err |-> "nil"]

\* A line of the read path leaves the layer and the goroutines alone.
ReaderFrame == UNCHANGED <<ctor, chan, chRet, shared, pc, count, att, data, ch, buf, ret,
                           hist, seals, calls, completed, failures>>

\* The first line of a read of channel c through a layer built by
\* NewCryptoStore(s, k): the call of the underlying store returned r.m, r.err.
Called(op, k, c, seq, fail, r) ==
  /\ Constructed /\ ~Crashed
  /\ chan[c].Msgs = "CryptoMsgStore"
  /\ reader.pc = "idle"
  /\ reader' = [NoReader EXCEPT !.pc = "L189", !.op = op, !.key = k,
                                !.ch = c, !.seq = seq, !.fail = fail,
                                !.m = r.m, !.err = r.err]
  /\ UNCHANGED <<rd, store>>
  /\ ReaderFrame

\* The read returns the pointer r and the error err (or panics).
Returns(res) ==
  /\ rd' = [op |-> reader.op, key |-> reader.key, ch |-> reader.ch, seq |-> reader.seq,
            fail |-> reader.fail, res |-> res]
  /\ reader' = NoReader

\* Line 188: m, err := cms.MsgStore.Lookup(seq)
L188(k, c, seq, fail) ==
  Called("Lookup", k, c, seq, fail, MsgStorePointer(c, store[c], seq, fail))

\* Line 197: m, err := cms.MsgStore.FirstMsg()
L197(k, c, fail) ==
  Called("FirstMsg", k, c, 1, fail, MsgStorePointer(c, store[c], 1, fail))

\* Line 206: m, err := cms.MsgStore.LastMsg()
L206(k, c, fail) ==
  Called("LastMsg", k, c, Len(store[c]), fail,
         MsgStorePointer(c, store[c], Len(store[c]), fail))

\* Lines 189-191 (198-200, 207-209): m == nil || m.Data == nil || err != nil
\* returns m itself and err; otherwise decryptedMsg(m) is called.
L189 ==
  /\ reader.pc = "L189"
  /\ IF reader.m = NilRef \/ Bytes(DataOf(reader.m)) = NilData \/ reader.err # "nil"
       THEN Returns(Result(At(reader.m), reader.err))
       ELSE reader' = [reader EXCEPT !.pc = "L177"] /\ UNCHANGED rd
  /\ UNCHANGED store
  /\ ReaderFrame

\* Line 161: the dst given to Open is nil.
OpenDst(m) == NilRef

\* Line 177, dd, err := cms.cs.decrypt(m.Data), with lines 160-162: Open
\* appends the plaintext to dst, a nil dst makes it allocate the array.
L177 ==
  /\ reader.pc = "L177"
  /\ LET r == decrypt(keyHash(reader.key), Bytes(DataOf(reader.m)))
         dst == OpenDst(reader.m)
         out == IF dst = NilRef THEN DdRef ELSE dst
     IN IF r.panic
          THEN Returns(Panic) /\ UNCHANGED store
          ELSE IF r.err # "nil"
            THEN /\ reader' = [reader EXCEPT !.pc = "L178", !.err = r.err]
                 /\ UNCHANGED <<rd, store>>
            ELSE /\ reader' = [reader EXCEPT !.pc = "L178", !.dd = out,
                                             !.fresh = IF out = DdRef THEN r.data ELSE @]
                 /\ store' = IF out.tag = "data"
                               THEN [store EXCEPT ![out.ch][out.seq].Data = r.data]
                               ELSE store
                 /\ UNCHANGED rd
  /\ ReaderFrame

\* Lines 178-180: if err != nil { return nil, err }
L178 ==
  /\ reader.pc = "L178"
  /\ IF reader.err # "nil"
       THEN Returns(Result(At(NilRef), reader.err))
       ELSE reader' = [reader EXCEPT !.pc = "L181"] /\ UNCHANGED rd
  /\ UNCHANGED store
  /\ ReaderFrame

\* Line 181 as retMsg := m: retMsg is the pointer the store handed out.
L181_Alias ==
  /\ reader.pc = "L181"
  /\ reader' = [reader EXCEPT !.pc = "L182", !.ret = reader.m]
  /\ UNCHANGED <<rd, store>>
  /\ ReaderFrame

\* Line 181, retMsg := *m: a new struct with the fields of *m; its Data is
\* the slice of m, the same array.
L181 ==
  /\ reader.pc = "L181"
  /\ reader' = [reader EXCEPT !.pc = "L182", !.ret = RetMsgRef,
                  !.retMsg = [At(reader.m) EXCEPT !.Data = DataOf(reader.m)]]
  /\ UNCHANGED <<rd, store>>
  /\ ReaderFrame

\* Line 182, retMsg.Data = dd: the Data field of the struct that retMsg
\* names is made to point to the array of dd.
L182 ==
  /\ reader.pc = "L182"
  /\ reader' = [reader EXCEPT !.pc = "L183",
                  !.retMsg = IF reader.ret.tag = "retMsg"
                               THEN [@ EXCEPT !.Data = reader.dd] ELSE @]
  /\ store' = IF reader.ret.tag = "msg"
                THEN [store EXCEPT ![reader.ret.ch][reader.ret.seq].Data = Bytes(reader.dd)]
                ELSE store
  /\ UNCHANGED rd
  /\ ReaderFrame

\* Line 183: return &retMsg, nil
L183 ==
  /\ reader.pc = "L183"
  /\ Returns(Result(At(reader.ret), "nil"))
  /\ UNCHANGED store
  /\ ReaderFrame

\* CryptoStore.CreateChannel(c), lines 118-128, run under cs.Lock().
DoCreateChannel(c, fail) ==
  /\ Constructed /\ ~Crashed
  /\ mutex = 0
  /\ LET r == CreateChannel(chan[c], fail) IN
       /\ chan' = IF r.err # "nil" THEN chan ELSE [chan EXCEPT ![c] = r.channel]
       /\ chRet' = Returned("CreateChannel", r.err,
                            IF r.err # "nil" THEN {} ELSE {c}, chan')
  /\ rd' = NoRead
  /\ UNCHANGED <<ctor, reader, shared, pc, count, att, data, ch, buf, ret, store,
                 hist, seals, calls, completed, failures>>

\* CryptoStore.Recover(), lines 104-115, run under cs.Lock(): the first call
\* made on the store.
DoRecover(fail) ==
  /\ Constructed /\ ~Crashed
  /\ mutex = 0
  /\ chRet = NoChRet
  /\ LET r == Recover(chan, fail) IN
       /\ chan' = r.chans
       /\ chRet' = Returned("Recover", r.err,
                            IF r.isNil \/ r.err # "nil" THEN {} ELSE r.channels, chan')
  /\ rd' = NoRead
  /\ UNCHANGED <<ctor, reader, shared, pc, count, att, data, ch, buf, ret, store,
                 hist, seals, calls, completed, failures>>

(* --------------------------- specifications ---------------------------- *)

\* The goroutines of the write path, running concurrently.
Next ==
  \/ \E p \in Procs, c \in Channels, d \in LoadPayloads : StoreEmpty(p, c, d)
  \/ \E p \in Procs, c \in Channels, d \in LoadPayloads : StoreBegin(p, c, d)
  \/ \E p \in Procs : L132(p)
  \/ \E p \in Procs : L133(p)
  \/ \E p \in Procs : L134(p)
  \/ \E p \in Procs : L135(p)
  \/ \E p \in Procs : L137(p)
  \/ \E p \in Procs : L140(p)
  \/ \E p \in Procs : L140Fail(p)
  \/ \E p \in Procs : L99(p)
  \/ \E p \in Procs : L141(p)
  \/ \E p \in Procs : L144(p)
  \/ \E p \in Procs : L145(p)
  \/ \E p \in Procs : L147(p)
  \/ \E p \in Procs : L152(p)
  \/ \E p \in Procs : L155(p)
  \/ \E p \in Procs : L156(p)
  \/ \E p \in Procs : L173(p)

Spec == Init /\ [][Next]_vars

\* A single caller (goroutine 1) that writes and reads, one call after the
\* other, after any call of NewCryptoStore; the reads go through a layer
\* built from any reader key, over an underlying store that returns its
\* messages without error (SpecRead and SpecChan have its failures).
NextSeq ==
  \/ \E c \in Channels, d \in Payloads : StoreEmpty(1, c, d)
  \/ \E c \in Channels, d \in Payloads : StoreBegin(1, c, d)
  \/ L132(1)
  \/ L133(1)
  \/ L134(1)
  \/ L135(1)
  \/ L137(1)
  \/ L140(1)
  \/ L140Fail(1)
  \/ L99(1)
  \/ L141(1)
  \/ L144(1)
  \/ L145(1)
  \/ L147(1)
  \/ L152(1)
  \/ L155(1)
  \/ L156(1)
  \/ L173(1)
  \/ pc[1] = "idle" /\ \E k \in ReaderKeys, seq \in 1 .. (Len(msgs) + 1) : DoLookup(k, Foo, seq, FALSE)
  \/ pc[1] = "idle" /\ \E k \in ReaderKeys : DoFirstMsg(k, Foo, FALSE)
  \/ pc[1] = "idle" /\ \E k \in ReaderKeys : DoLastMsg(k, Foo, FALSE)

SpecSeq == InitAny /\ [][NextSeq]_vars

\* The concurrent goroutines' calls of encrypt (Store of a non-empty payload)
\* with a random source that never fails, under fair scheduling: a goroutine that can take a step eventually takes one,
\* and a goroutine waiting in cs.Lock() gets the mutex if it is released
\* again and again (sync.Mutex hands the lock to a starving waiter).
NextLive ==
  \/ \E p \in Procs, c \in Channels, d \in LoadPayloads : StoreBegin(p, c, d)
  \/ \E p \in Procs : L132(p)
  \/ \E p \in Procs : L133(p)
  \/ \E p \in Procs : L134(p)
  \/ \E p \in Procs : L135(p)
  \/ \E p \in Procs : L137(p)
  \/ \E p \in Procs : L140(p)
  \/ \E p \in Procs : L99(p)
  \/ \E p \in Procs : L144(p)
  \/ \E p \in Procs : L145(p)
  \/ \E p \in Procs : L147(p)
  \/ \E p \in Procs : L152(p)
  \/ \E p \in Procs : L155(p)
  \/ \E p \in Procs : L156(p)
  \/ \E p \in Procs : L173(p)

\* The steps of encrypt that goroutine p takes without waiting for the mutex.
Running(p) ==
  \/ L132(p) \/ L133(p) \/ L134(p) \/ L137(p) \/ L140(p) \/ L99(p) \/ L144(p)
  \/ L145(p) \/ L147(p) \/ L152(p) \/ L155(p) \/ L156(p) \/ L173(p)

Fairness == \A p \in Procs : WF_vars(Running(p)) /\ SF_vars(L135(p))

SpecLive == Init /\ [][NextLive]_vars /\ Fairness

\* Records that were put into the underlying store without this layer, as
\* a recovered channel may hold them: a short plaintext payload, a plaintext
\* payload of nonceSize bytes, and a sealed record whose nonce prefix was
\* altered.  Foreign marks them in the history of payloads.
Foreign == [kind |-> "foreign"]
ShortPlaintext == Raw(<<0>>)
LongPlaintext == Raw([i \in 1 .. nonceSize |-> 0])
Tampered == Rec(FirstNonce + 1, Seal(keyHash("ivan"), FirstNonce, <<0>>))
ForeignRecords == <<LongPlaintext, Tampered, ShortPlaintext>>

\* The message store of a channel that holds the records ds, stored at time 0.
RECURSIVE StoredRecords(_)
StoredRecords(ds) ==
  IF ds = <<>> THEN <<>>
  ELSE MsgStoreStore(StoredRecords(SubSeq(ds, 1, Len(ds) - 1)), ds[Len(ds)], 0)

\* What the underlying store holds when the layer is built over it: nothing,
\* or channel foo with records of an earlier run made without the layer.
DiskStates ==
  { [chan |-> [c \in Channels |-> NoChannel],
     store |-> [c \in Channels |-> <<>>]],
    [chan |-> [c \in Channels |-> IF c = Foo THEN StoredChannel ELSE NoChannel],
     store |-> [c \in Channels |-> IF c = Foo THEN StoredRecords(ForeignRecords) ELSE <<>>]] }

\* NewCryptoStore(s, "ivan") over such a store, before Recover or
\* CreateChannel is called.
InitChan ==
  \E disk \in DiskStates :
    LET r == NewCryptoStore("ivan", EnvUnset, TRUE) IN
      /\ ctor = [key |-> "ivan", env |-> EnvUnset, randOK |-> TRUE, ok |-> r.cs.ok, err |-> r.err]
      /\ gcm = r.cs.gcm
      /\ nonce = r.cs.nonce
      /\ encrypted = r.cs.encrypted
      /\ inEncrypt = r.cs.inEncrypt
      /\ mutex = 0
      /\ pc = [p \in Procs |-> "idle"]
      /\ count = [p \in Procs |-> 0]
      /\ data = [p \in Procs |-> NilData]
      /\ buf = [p \in Procs |-> NilData]
      /\ ret = [p \in Procs |-> NoRet]
      /\ ch = [p \in Procs |-> Foo]
      /\ chan = disk.chan
      /\ chRet = NoChRet
      /\ store = disk.store
      /\ rd = NoRead
      /\ reader = NoReader
      /\ att = [p \in Procs |-> NoAttempt]
      /\ hist = [c \in Channels |-> [i \in 1 .. Len(disk.store[c]) |-> Foreign]]
      /\ seals = [n \in NonceIds |-> 0]
      /\ calls = 0
      /\ completed = 0
      /\ failures = 0

\* A single caller (goroutine 1) that recovers or creates channels, stores
\* into them and reads them through the layer.
NextChan ==
  \/ \E fail \in BOOLEAN : DoRecover(fail)
  \/ \E c \in Channels, fail \in BOOLEAN : DoCreateChannel(c, fail)
  \/ \E c \in Channels : StoreBegin(1, c, Raw(<<0>>))
  \/ L132(1)
  \/ L133(1)
  \/ L134(1)
  \/ L135(1)
  \/ L137(1)
  \/ L140(1)
  \/ L140Fail(1)
  \/ L99(1)
  \/ L141(1)
  \/ L144(1)
  \/ L145(1)
  \/ L147(1)
  \/ L152(1)
  \/ L155(1)
  \/ L156(1)
  \/ L173(1)
  \/ pc[1] = "idle" /\ \E c \in Channels, fail \in BOOLEAN : \E seq \in 1 .. (Len(store[c]) + 1) : DoLookup(ctor.key, c, seq, fail)
  \/ pc[1] = "idle" /\ \E c \in Channels, fail \in BOOLEAN : DoFirstMsg(ctor.key, c, fail)
  \/ pc[1] = "idle" /\ \E c \in Channels, fail \in BOOLEAN : DoLastMsg(ctor.key, c, fail)

SpecChan == InitChan /\ [][NextChan]_vars

\* The single caller of the tests (goroutine 1) on the layer built by
\* NewCryptoStore(s, "ivan"): it stores and reads, one call after the other,
\* the reads taken line by line through a layer built from any reader key.
NextRead ==
  \/ reader.pc = "idle" /\ \E c \in Channels, d \in ReadPayloads : StoreEmpty(1, c, d)
  \/ reader.pc = "idle" /\ \E c \in Channels, d \in ReadPayloads : StoreBegin(1, c, d)
  \/ L132(1)
  \/ L133(1)
  \/ L134(1)
  \/ L135(1)
  \/ L137(1)
  \/ L140(1)
  \/ L140Fail(1)
  \/ L99(1)
  \/ L141(1)
  \/ L144(1)
  \/ L145(1)
  \/ L147(1)
  \/ L152(1)
  \/ L155(1)
  \/ L156(1)
  \/ L173(1)
  \/ pc[1] = "idle" /\ \E k \in ReaderKeys, seq \in 1 .. (Len(msgs) + 1), fail \in BOOLEAN : L188(k, Foo, seq, fail)
  \/ pc[1] = "idle" /\ \E k \in ReaderKeys, fail \in BOOLEAN : L197(k, Foo, fail)
  \/ pc[1] = "idle" /\ \E k \in ReaderKeys, fail \in BOOLEAN : L206(k, Foo, fail)
  \/ L189
  \/ L177
  \/ L178
  \/ L181
  \/ L182
  \/ L183

SpecRead == Init /\ [][NextRead]_vars

\* The concurrent goroutines of Spec under the same fair scheduling, with a
\* random source that may fail (at most MaxFailures times) and then works
\* again: line 140 is eventually run with a working source.
RunningToReturn(p) == Running(p) \/ L141(p)

FairnessWithFailures ==
  \A p \in Procs : WF_vars(RunningToReturn(p)) /\ SF_vars(L135(p))

SpecFair == Init /\ [][Next]_vars /\ FairnessWithFailures

(* ------------------------------ claims ---------------------------------- *)

\* Stored records whose payload was not empty.
Sealed == {i \in 1 .. Len(msgs) : len(sent[i]) > 0}

\* Goroutines between their in-flight increment and their decrement on the
\* sealing path (lines 151-156).
Sealing == {q \in Procs : pc[q] \in {"L152", "L155", "L156"}}

\* C1: under any interleaving of concurrent Store calls, every record handed
\* to the underlying store decrypts with the same key to the payload that was
\* stored: the nonce in the record's prefix is the nonce given to Seal.
C1_EveryRecordDecryptable ==
  \A i \in Sealed :
    /\ msgs[i].Data.prefix = msgs[i].Data.ct.nonce
    /\ Lookup(gcm, msgs, i, FALSE) = Result(Msg(i, msgs[i].Timestamp, sent[i]), "nil")

\* C3: in every execution the number of Seal operations performed with one
\* nonce never exceeds csMaxEncryptCallsPerNonce.
C3_SealsPerNonceBounded ==
  \A n \in NonceIds : seals[n] <= csMaxEncryptCallsPerNonce

\* C5: if nonce generation never failed and at least
\* csMaxEncryptCallsPerNonce encrypt calls have completed, the active nonce
\* is no longer the nonce installed at construction.
C5_LoadRotatesNonce ==
  (failures = 0 /\ completed >= csMaxEncryptCallsPerNonce) => nonce # FirstNonce

C5_Witness ==
  failures = 0 /\ completed >= csMaxEncryptCallsPerNonce /\ nonce # FirstNonce

\* C10: at the step where a rotator replaces cs.nonce, no other encrypt call
\* is between its in-flight increment and its decrement on the sealing path.
C10_InstallOnlyWhenDrained ==
  [][nonce' # nonce => Sealing = {}]_vars


\* C2: for a single caller, a read of a non-empty record through a layer
\* built from the same key returns exactly the payload stored at that
\* sequence (Lookup at seq, FirstMsg at 1, LastMsg at the last sequence),
\* also after the call count crossed the rotation threshold (the underlying
\* store returning the record without error).
C2_RoundTrip ==
  (rd.op # "none" /\ ~rd.fail /\ keyHash(rd.key) = gcm /\ rd.seq \in Sealed) =>
    rd.res = Result(Msg(rd.seq, msgs[rd.seq].Timestamp, sent[rd.seq]), "nil")

C2_Witness ==
  /\ rd.op = "LastMsg" /\ keyHash(rd.key) = gcm /\ rd.seq \in Sealed
  /\ msgs[rd.seq].Data.prefix > FirstNonce
  /\ rd.res.Data = sent[rd.seq]
  /\ Len(msgs) > 1 /\ sent[1] # sent[rd.seq]

\* C4: a read of a non-empty record through a layer built from another key
\* returns no message together with an error, on every read.
C4_WrongKeyFails ==
  (rd.op # "none" /\ keyHash(rd.key) # gcm /\ rd.seq \in Sealed) =>
    /\ rd.res.isNil /\ rd.res.Data = NilData
    /\ rd.res.err # "nil"
    /\ ~rd.res.panic

C4_Witness ==
  /\ rd.op = "Lookup" /\ keyHash(rd.key) # gcm /\ rd.seq \in Sealed
  /\ rd.res.isNil /\ rd.res.err = AuthError

\* C6: a payload of length zero (nil or empty) is handed to the underlying
\* store unchanged, and a following Lookup, FirstMsg or LastMsg returns it
\* with an empty payload, without decryption and without error (the
\* underlying store returning it without error).
C6_EmptyPayloadBypass ==
  /\ \A i \in 1 .. Len(msgs) : len(sent[i]) = 0 => msgs[i].Data = sent[i]
  /\ (rd.op # "none" /\ ~rd.fail /\ rd.seq \in 1 .. Len(msgs) /\ len(sent[rd.seq]) = 0) =>
       rd.res = Result(Msg(rd.seq, msgs[rd.seq].Timestamp, sent[rd.seq]), "nil")

\* C7: with finitely many callers, fair scheduling and a random source that
\* does not fail, every encrypt call eventually returns.
C7_EncryptReturns ==
  \A p \in Procs : (pc[p] # "idle") ~> (pc[p] = "idle")

\* A rotator holds the mutex and waits for the drain while another goroutine
\* has overshot the threshold and waits for the mutex.
C7_Witness ==
  \E p, q \in Procs :
    /\ pc[p] = "L137" /\ mutex = p
    /\ pc[q] = "L135" /\ count[q] > csMaxEncryptCallsPerNonce

\* C8: for a non-empty payload P the bytes handed to the underlying store are
\* a nonce of the layer followed by ciphertext and tag, of length
\* nonceSize + len(P) + overhead, and are never P itself; empty payloads are
\* stored as given.
C8_StoredRecordIsNotPlaintext ==
  \A i \in 1 .. Len(msgs) :
    IF len(sent[i]) > 0
      THEN /\ msgs[i].Data.kind = "enc"
           /\ msgs[i].Data.prefix \in FirstNonce .. nonce
           /\ msgs[i].Data.ct.pt = sent[i].bytes
           /\ len(msgs[i].Data) = nonceSize + len(sent[i]) + cryptoOverhead
           /\ msgs[i].Data # sent[i]
      ELSE msgs[i].Data = sent[i]

C8_Witness ==
  \E i, j \in 1 .. Len(msgs) :
    /\ len(sent[i]) > 0 /\ msgs[i].Data.kind = "enc" /\ len(msgs[i].Data) = nonceSize + 1 + cryptoOverhead
    /\ len(sent[j]) = 0 /\ msgs[j].Data = sent[j]

\* No key: the parameter is empty and the variable is unset or empty.
NoKeyGiven == ctor.key = "" /\ ctor.env \in {EnvUnset, ""}

\* C9 as stated: with an empty key and the variable unset or empty,
\* NewCryptoStore returns no store and ErrCryptoStoreRequiresKey; with a key
\* in the parameter or else in the variable it succeeds, the first nonce
\* installed and the call counter at zero.
C9_Original ==
  /\ NoKeyGiven => (~ctor.ok /\ ctor.err = "crypto store requires a key")
  /\ ~NoKeyGiven => (ctor.ok /\ ctor.err = "nil" /\
                      (calls = 0 => nonce # NoNonce /\ encrypted = 0))

\* C9, amended: ... with a key in the parameter or else in the variable it
\* succeeds, the first nonce installed and the call counter at zero, when the
\* random source delivers the first nonce; when it does not, NewCryptoStore
\* returns no store and the error of the random source.
C9_NewCryptoStore ==
  /\ NoKeyGiven => (~ctor.ok /\ ctor.err = "crypto store requires a key")
  /\ (~NoKeyGiven /\ ctor.randOK) =>
       (ctor.ok /\ ctor.err = "nil" /\ (calls = 0 => nonce # NoNonce /\ encrypted = 0))
  /\ (~NoKeyGiven /\ ~ctor.randOK) => (~ctor.ok /\ ctor.err = "rand")

C9_Witness ==
  /\ ctor.key = "" /\ ctor.env = "ivan" /\ ctor.ok
  /\ calls = 0 /\ nonce = FirstNonce /\ encrypted = 0

(* ----------------- claims on rotation and its failure ------------------- *)

\* C11: the encrypt call that observed count == csMaxEncryptCallsPerNonce
\* seals its payload with the nonce it installed itself: the record it
\* returns carries that nonce in its prefix and was given that nonce in Seal.
C11_RotatorSealsOwnNonce ==
  \A p \in Procs :
    (pc[p] \in {"L156", "L173"} /\ att[p].mine # NoNonce) =>
      /\ buf[p].prefix = att[p].mine
      /\ buf[p].ct.nonce = att[p].mine

\* Goroutines that observed count == csMaxEncryptCallsPerNonce for the
\* current value of the call counter: they are between line 133 and the
\* reset of line 99, or on the error return.
Observers ==
  {p \in Procs : /\ count[p] = csMaxEncryptCallsPerNonce
                 /\ pc[p] \in {"L134", "L135", "L137", "L140", "L99", "L141"}}

\* Goroutines inside the rotation branch of lines 137-144.
InRotationBranch == {p \in Procs : pc[p] \in {"L137", "L140", "L99", "L141", "L144"}}

\* At most one observer per value of the call counter, one exists once the
\* counter reached the threshold (no nonce generation having failed), and
\* the rotation branch holds at most one goroutine, an observer holding the
\* mutex.
Serialized ==
  /\ Cardinality(Observers) <= 1
  /\ (encrypted >= csMaxEncryptCallsPerNonce /\ failures = 0) => Observers # {}
  /\ Cardinality(InRotationBranch) <= 1
  /\ \A p \in InRotationBranch :
       mutex = p /\ count[p] = csMaxEncryptCallsPerNonce

\* The nonce is replaced only by the observer, which holds the mutex, and the
\* new nonce is the next generation.
InstalledByObserver ==
  nonce' # nonce =>
    /\ nonce' = nonce + 1
    /\ \E p \in Procs : Observers = {p} /\ mutex = p /\ pc[p] = "L140"

\* C12 as stated: one observer per nonce generation, rotations serialized by
\* the mutex, and every observer that runs line 140 advances the nonce
\* generation by exactly one.
C12_Original ==
  [][/\ Serialized'
     /\ InstalledByObserver
     /\ \A p \in Procs :
          (pc[p] = "L140" /\ pc'[p] # "L140") => nonce' = nonce + 1]_vars

\* C12: one observer per nonce generation, rotations serialized by the mutex,
\* and every observer that runs line 140 either advances the nonce generation
\* by exactly one or, when the random source fails, leaves the nonce as it is
\* and takes the error return.
C12_OneRotationPerCrossing ==
  [][/\ Serialized'
     /\ InstalledByObserver
     /\ \A p \in Procs :
          (pc[p] = "L140" /\ pc'[p] # "L140") =>
            \/ pc'[p] = "L99" /\ nonce' = nonce + 1
            \/ pc'[p] = "L141" /\ nonce' = nonce /\ failures' = failures + 1]_vars

\* A rotator has installed the next nonce while another caller, whose count
\* overshot, waits for the mutex.
C12_Witness ==
  \E p, q \in Procs :
    /\ pc[p] = "L99" /\ Observers = {p} /\ nonce = FirstNonce + 1
    /\ pc[q] = "L135" /\ count[q] > csMaxEncryptCallsPerNonce

\* C13: an attempt whose count is above csMaxEncryptCallsPerNonce does not
\* seal: it is on the retry path (release of the in-flight claim, cs.Lock(),
\* cs.Unlock(), back to line 132), and a call that overshot seals only after
\* a later nonce was installed and the call counter reset.
C13_OvershootRetries ==
  \A p \in Procs :
    /\ count[p] > csMaxEncryptCallsPerNonce =>
         pc[p] \in {"L134", "L135", "L147", "L132", "L133"}
    /\ pc[p] = "L147" => mutex = p /\ count[p] > csMaxEncryptCallsPerNonce
    /\ (pc[p] \in {"L152", "L155", "L156", "L173"} /\ att[p].over > 0) =>
         /\ Resets >= att[p].over
         /\ nonce - FirstNonce >= att[p].over
         /\ count[p] <= csMaxEncryptCallsPerNonce

\* A call that overshot is sealing in a later attempt.
C13_Witness ==
  \E p \in Procs :
    /\ pc[p] = "L155" /\ att[p].over > 0
    /\ count[p] < csMaxEncryptCallsPerNonce

\* C14: after a nonce generation has failed, an encrypt call that starts
\* (the random source working again) eventually returns.
C14_RetryAfterFailure ==
  \A p \in Procs : (failures > 0 /\ pc[p] = "L132") ~> (pc[p] = "idle")

\* Goroutines holding a claim on the in-flight counter: between line 132 and
\* line 134, or between line 145 (line 133 for a count below the threshold)
\* and line 156.
InFlight == {p \in Procs : pc[p] \in {"L133", "L134", "L152", "L155", "L156"}}

\* C15: when the nonce generation fails in a rotation, the nonce, the call
\* counter and the underlying store are left as they are, the call returns
\* sequence 0 with the error of the random source and releases the mutex, and
\* the in-flight counter holds no claim of the call.
C15_FailedRotationReturnsError ==
  [][\A p \in Procs :
       /\ (pc[p] = "L140" /\ pc'[p] = "L141") =>
            /\ nonce' = nonce /\ encrypted' = encrypted
            /\ store' = store /\ mutex' = p
       /\ (pc[p] = "L141" /\ pc'[p] # "L141") =>
            /\ pc'[p] = "idle"
            /\ ret'[p] = [seq |-> 0, err |-> "rand"]
            /\ store' = store
            /\ nonce' = nonce
            /\ mutex = p /\ mutex' = 0
            /\ inEncrypt' = Cardinality(InFlight')]_vars

\* A Store call has returned the error of the random source.
C15_Witness ==
  \E p \in Procs :
    /\ pc[p] = "idle" /\ ret[p] = [seq |-> 0, err |-> "rand"]
    /\ failures > 0 /\ mutex = 0 /\ nonce = FirstNonce
    /\ Len(msgs) < calls /\ inEncrypt = Cardinality(InFlight)

\* C17: the call counter goes down, or to zero, only in line 99 of the
\* goroutine that holds the mutex and has just installed the active nonce;
\* every install of a nonce is followed by that line, which sets the counter
\* to zero; every other step leaves the counter or increases it.
C17_ResetOnlyWithInstall ==
  [][/\ (encrypted' < encrypted \/ (encrypted' = 0 /\ encrypted # 0)) =>
          \E p \in Procs : /\ pc[p] = "L99" /\ pc'[p] = "L144"
                           /\ mutex = p /\ att[p].mine = nonce
                           /\ encrypted' = 0
     /\ nonce' # nonce => \E p \in Procs : pc[p] = "L140" /\ pc'[p] = "L99"
     /\ \A p \in Procs :
          pc[p] = "L99" => \/ pc'[p] = "L99"
                           \/ pc'[p] = "L144" /\ encrypted' = 0 /\ nonce' = nonce]_vars

\* A rotation has reset the counter and calls have been counted since.
C17_Witness ==
  /\ nonce > FirstNonce /\ encrypted > 0 /\ encrypted < csMaxEncryptCallsPerNonce
  /\ \A p \in Procs : pc[p] # "L99"

\* Goroutines executing encrypt: from line 132 to its return.
Executing ==
  {p \in Procs : pc[p] \in {"L132", "L133", "L134", "L135", "L137", "L140", "L99",
                            "L141", "L144", "L145", "L147", "L152", "L155", "L156"}}

\* C20: the in-flight counter equals the number of encrypt calls that hold a
\* claim, so it is never negative, never more than the number of calls
\* executing encrypt, and zero when no call is executing encrypt.
C20_InFlightBalanced ==
  /\ inEncrypt = Cardinality(InFlight)
  /\ inEncrypt >= 0
  /\ inEncrypt <= Cardinality(Executing)
  /\ Executing = {} => inEncrypt = 0

\* All calls have returned after runs of the normal path, the rotation path
\* and the error return.
C20_Witness ==
  /\ \A p \in Procs : pc[p] = "idle"
  /\ inEncrypt = 0
  /\ nonce > FirstNonce /\ failures > 0
  /\ completed > csMaxEncryptCallsPerNonce

(* ------------------- claims on reads and on channels -------------------- *)

\* The read in progress, as CryptoMsgStore.Lookup, FirstMsg or LastMsg
\* compute it from the message store.
ReadInOneStep ==
  IF reader.op = "Lookup"
    THEN Lookup(keyHash(reader.key), store[reader.ch], reader.seq, reader.fail)
  ELSE IF reader.op = "FirstMsg"
    THEN FirstMsg(keyHash(reader.key), store[reader.ch], reader.fail)
  ELSE LastMsg(keyHash(reader.key), store[reader.ch], reader.fail)

\* C18: no line of a Lookup, FirstMsg or LastMsg changes a message of the
\* underlying store, payload or envelope. When the read returns: its result is
\* the one the message store determines; a message it returns carries the
\* sequence and the timestamp of the stored message; a decrypted payload is
\* returned in a struct and an array of its own, the stored record still
\* sealed; and the same read as the one before returns the same result.
C18_ReadsLeaveStoreAlone ==
  [][/\ reader' # reader => store' = store
     /\ (reader.pc # "idle" /\ reader'.pc = "idle") =>
          /\ rd'.res = ReadInOneStep
          /\ (rd'.res.err = "nil" /\ ~rd'.res.isNil) =>
               /\ rd'.res.Sequence = store'[reader.ch][reader.seq].Sequence
               /\ rd'.res.Timestamp = store'[reader.ch][reader.seq].Timestamp
          /\ reader.pc = "L183" =>
               /\ reader.ret # reader.m
               /\ DataOf(reader.ret) # DataOf(reader.m)
               /\ store'[reader.ch][reader.seq].Data.kind = "enc"
               /\ rd'.res.Data # store'[reader.ch][reader.seq].Data
          /\ (rd.op = reader.op /\ rd.key = reader.key /\ rd.ch = reader.ch
                /\ rd.seq = reader.seq /\ rd.fail = reader.fail) =>
               rd'.res = rd.res]_vars

\* A read has returned a decrypted payload with the stored timestamp while
\* the underlying store still holds the sealed record.
C18_Witness ==
  /\ rd.op = "Lookup" /\ keyHash(rd.key) = gcm /\ rd.seq \in Sealed
  /\ rd.res.Data = sent[rd.seq] /\ rd.res.err = "nil"
  /\ msgs[rd.seq].Data.kind = "enc"
  /\ rd.res.Timestamp = msgs[rd.seq].Timestamp
  /\ rd.res.Timestamp # rd.res.Sequence

\* C16: a read, through the layer, of a non-empty record that was not sealed
\* by it (tampered, truncated below the nonce length, or plaintext) returns
\* no message and an error, and does not panic.
C16_ForeignRecordsReportError ==
  (/\ rd.op # "none" /\ keyHash(rd.key) = gcm
   /\ rd.seq \in 1 .. Len(store[rd.ch])
   /\ hist[rd.ch][rd.seq] = Foreign
   /\ len(store[rd.ch][rd.seq].Data) > 0) =>
     /\ ~rd.res.panic
     /\ rd.res.err # "nil"
     /\ rd.res.isNil /\ rd.res.Data = NilData

\* The records of all channels that the layer sealed.
SealedRecords ==
  UNION {{<<c, i>> : i \in {j \in 1 .. Len(store[c]) :
                             hist[c][j] # Foreign /\ len(hist[c][j]) > 0}} :
         c \in Channels}

\* Every channel handed out has a CryptoMsgStore as its Msgs; a successful
\* CreateChannel returns its channel and a successful Recover every channel
\* of the underlying store; a failed call returns the error of the underlying
\* store and no channel.
Wrapped ==
  /\ \A c \in Channels : /\ chan[c].Msgs \in {"none", "CryptoMsgStore"}
                         /\ chRet.Msgs[c] \in {"none", "CryptoMsgStore"}
  /\ (chRet.op = "CreateChannel" /\ chRet.err = "nil") =>
       \E c \in Channels : /\ chRet.Msgs[c] = "CryptoMsgStore"
                           /\ chan[c] = [exists |-> TRUE, Msgs |-> "CryptoMsgStore"]
  /\ (chRet.op = "Recover" /\ chRet.err = "nil") =>
       \A c \in Channels : chan[c].exists =>
         chRet.Msgs[c] = "CryptoMsgStore" /\ chan[c].Msgs = "CryptoMsgStore"
  /\ chRet.err # "nil" =>
       /\ chRet.err \in {StoreError, "already exists"}
       /\ \A c \in Channels : chRet.Msgs[c] = "none"

\* One key, one call counter and one nonce for all channels: the sealed
\* records of every channel carry the key of the layer and a nonce it
\* installed, and between calls (no nonce generation having failed) the call
\* counter and the nonce generation are those of the number of records
\* sealed over all channels.
SharedLifecycle ==
  /\ \A r \in SealedRecords :
       LET d == store[r[1]][r[2]].Data IN
         /\ d.kind = "enc" /\ d.ct.key = gcm
         /\ d.prefix = d.ct.nonce /\ d.prefix \in FirstNonce .. nonce
  /\ (failures = 0 /\ \A p \in Procs : pc[p] = "idle") =>
       /\ encrypted = Cardinality(SealedRecords) % csMaxEncryptCallsPerNonce
       /\ nonce = FirstNonce + (Cardinality(SealedRecords) \div csMaxEncryptCallsPerNonce)

\* C19: every channel returned by CreateChannel and by Recover has its
\* message store wrapped by the CryptoMsgStore of the one CryptoStore, whose
\* call counter and nonce serve the Store calls of all channels; a failed
\* CreateChannel or Recover returns the error of the underlying store and
\* wraps nothing.
C19_ChannelsShareTheLayer ==
  [][/\ Wrapped'
     /\ SharedLifecycle'
     /\ chRet'.err # "nil" => chan' = chan]_vars

\* Channel foo was recovered and channel bar created; foo holds records
\* sealed with the first and with the second nonce, the rotation having
\* come with the Store calls of both channels.
C19_Witness ==
  /\ hist[Foo] # <<>> /\ hist[Foo][1] = Foreign
  /\ chan[Foo].Msgs = "CryptoMsgStore" /\ chan[Bar].Msgs = "CryptoMsgStore"
  /\ \E i, j \in 1 .. Len(store[Foo]) :
       /\ <<Foo, i>> \in SealedRecords /\ store[Foo][i].Data.prefix = FirstNonce
       /\ <<Foo, j>> \in SealedRecords /\ store[Foo][j].Data.prefix = FirstNonce + 1
  /\ \E i \in 1 .. Len(store[Bar]) : <<Bar, i>> \in SealedRecords
  /\ Cardinality({r \in SealedRecords : r[1] = Foo}) <= csMaxEncryptCallsPerNonce

====
